---- MODULE Spec2Model ----
(***************************************************************************)
(* Model of useForm (src/src/solidHookForm.ts, lines 68-119): a form       *)
(* controller over a Solid store pair (form, formErrors) and a Zod object  *)
(* schema.  JavaScript objects are functions from own property names to    *)
(* values; properties inherited from Object.prototype are modelled by      *)
(* ObjectPrototypeKeys.                                                    *)
(***************************************************************************)
EXTENDS Integers, Sequences, FiniteSets, TLC

VARIABLES schema, initialFormState, sharesInitial, form, formErrors,
          last, preForm, preErrors, validated, passIssues, nops

vars == <<schema, initialFormState, sharesInitial, form, formErrors,
          last, preForm, preErrors, validated, passIssues, nops>>

\* Longest run of handler calls explored after construction.
MaxOps == 3

\* The JavaScript value undefined (never a property name or a message here).
Undefined == "<undefined>"

\* A value read through the prototype chain (a function of Object.prototype).
Inherited == "<inherited>"

\* Property names every plain object inherits from Object.prototype.
ObjectPrototypeKeys ==
    {"constructor", "__defineGetter__", "__defineSetter__", "hasOwnProperty",
     "__lookupGetter__", "__lookupSetter__", "isPrototypeOf",
     "propertyIsEnumerable", "toString", "valueOf", "__proto__",
     "toLocaleString"}

\* Strings an input element can carry as its value.
Values == {"", "abc", "secret123", "user@x.io"}

\* Strings accepted by z.string().email().
EmailValues == {"user@x.io"}

\* The object literal {}.
EmptyObject == [k \in {} |-> ""]

\* obj[name] for a plain object: own property, else inherited, else undefined.
Get(obj, name) ==
    IF name \in DOMAIN obj THEN obj[name]
    ELSE IF name \in ObjectPrototypeKeys THEN Inherited
    ELSE Undefined

\* The JavaScript operator `name in obj`: own or inherited property.
HasProperty(obj, name) == name \in DOMAIN obj \/ name \in ObjectPrototypeKeys

\* JavaScript truthiness of a string-or-undefined value.
Truthy(x) == x # Undefined /\ x # ""

\* issue.path[0]
PathHead(path) == IF Len(path) > 0 THEN path[1] ELSE Undefined

(***************************************************************************)
(* Schemas.  A schema has its shape's keys in declaration order, the       *)
(* per-field string checks in the order Zod runs them, and the cross-field *)
(* refinements (superRefine), each adding one issue with a chosen path.    *)
(***************************************************************************)
Check(field, kind, arg, message) ==
    [field |-> field, kind |-> kind, arg |-> arg, message |-> message]

Refine(a, b, path, message) ==
    [a |-> a, b |-> b, path |-> path, message |-> message]

\* README registration example.
RegisterSchema ==
    [keys   |-> <<"email", "password", "confirmPassword">>,
     checks |-> <<Check("email", "email", 0, "Invalid email address"),
                  Check("password", "min", 8, "Password must be at least 8 characters")>>,
     refine |-> <<Refine("password", "confirmPassword", <<"confirmPassword">>,
                         "The passwords do not match")>>]

\* Zod's default messages for .min(6) and .max(30) given no message.
TooSmall6 == "Too small: expected string to have >=6 characters"

TooBig30 == "Too big: expected string to have <=30 characters"

\* README custom-input example: several checks on one field.
LoginSchema ==
    [keys   |-> <<"login", "password", "passwordRepeat">>,
     checks |-> <<Check("login", "email", 0, "Invalid email address"),
                  Check("login", "min", 6, TooSmall6),
                  Check("login", "max", 30, TooBig30),
                  Check("password", "min", 6, TooSmall6),
                  Check("password", "max", 30, TooBig30)>>,
     refine |-> <<Refine("password", "passwordRepeat", <<"passwordRepeat">>,
                         "Passwords do not match")>>]

\* A field whose name is the empty string, with two checks.
EmptyNameSchema ==
    [keys   |-> <<"">>,
     checks |-> <<Check("", "email", 0, "Invalid email address"),
                  Check("", "min", 6, TooSmall6)>>,
     refine |-> <<>>]

\* A cross-field rule that adds a form-level issue (no path).
FormLevelSchema ==
    [keys   |-> <<"password", "confirmPassword">>,
     checks |-> <<>>,
     refine |-> <<Refine("password", "confirmPassword", <<>>,
                         "The passwords do not match")>>]

\* A cross-field rule that adds issues under paths outside the shape.
StrayPathSchema ==
    [keys   |-> <<"password", "confirmPassword">>,
     checks |-> <<>>,
     refine |-> <<Refine("password", "confirmPassword", <<"other">>,
                         "The passwords do not match"),
                  Refine("password", "confirmPassword", <<"toString">>,
                         "Mismatch")>>]

Schemas == {RegisterSchema, LoginSchema, EmptyNameSchema, FormLevelSchema,
            StrayPathSchema}

\* Object.keys(schema.shape)
ObjectKeys(s) == s.keys

\* schema.shape as an object (the rules are kept in s.checks).
Shape(s) == [k \in {s.keys[i] : i \in 1..Len(s.keys)} |-> TRUE]

\* Whether a string check rejects value v.
CheckFails(c, v) ==
    CASE c.kind = "email" -> v \notin EmailValues
      [] c.kind = "min"   -> Len(v) < c.arg
      [] c.kind = "max"   -> Len(v) > c.arg

\* Issues of the field checks, in order.
RECURSIVE CheckIssues(_, _)
CheckIssues(checks, data) ==
    IF checks = <<>> THEN <<>>
    ELSE LET c == Head(checks)
             rest == CheckIssues(Tail(checks), data)
         IN IF CheckFails(c, data[c.field])
            THEN <<[path |-> <<c.field>>, message |-> c.message]>> \o rest
            ELSE rest

\* Issues added by the refinements, in order.
RECURSIVE RefineIssues(_, _)
RefineIssues(rules, data) ==
    IF rules = <<>> THEN <<>>
    ELSE LET r == Head(rules)
             rest == RefineIssues(Tail(rules), data)
         IN IF data[r.a] # data[r.b]
            THEN <<[path |-> r.path, message |-> r.message]>> \o rest
            ELSE rest

\* schema.safeParse(form): the ordered issue list; success iff it is empty.
SafeParse(s, data) == CheckIssues(s.checks, data) \o RefineIssues(s.refine, data)

(***************************************************************************)
(* Store primitives (solid-js/store) as used by useForm.                   *)
(***************************************************************************)
\* CreateDataProperty(obj, property, value): defines an own property.
DefineOwn(obj, property, value) ==
    [k \in DOMAIN obj \cup {property} |->
        IF k = property THEN value ELSE obj[k]]

\* setProperty(state, property, value): assigning undefined deletes.  An
\* assignment to "__proto__" on an object without that own key reaches the
\* inherited setter, which ignores a string: no key is added.
SetProperty(state, property, value) ==
    IF property = "__proto__" /\ property \notin DOMAIN state
    THEN state
    ELSE IF value = Undefined
    THEN [k \in DOMAIN state \ {property} |-> state[k]]
    ELSE DefineOwn(state, property, value)

\* Object.fromEntries(entries)
RECURSIVE FromEntries(_)
FromEntries(entries) ==
    IF entries = <<>> THEN EmptyObject
    ELSE DefineOwn(FromEntries(SubSeq(entries, 1, Len(entries) - 1)),
                     entries[Len(entries)][1], entries[Len(entries)][2])

\* Variant of InitialFormState that maps over all keys but the last.
InitialFormStateDropsLast(s) ==
    LET formKeys == ObjectKeys(s)
    IN FromEntries([i \in 1..(Len(formKeys) - 1) |-> <<formKeys[i], "">>])

\* initialFormState: Object.fromEntries(formKeys.map((key) => [key, ""]))
InitialFormState(s) ==
    LET formKeys == ObjectKeys(s)
    IN FromEntries([i \in 1..Len(formKeys) |-> <<formKeys[i], "">>])

\* Variant of CreateFormStore without the spread: createStore(initialFormState).
CreateFormStoreShared(init) == [state |-> init, sharesInitial |-> TRUE]

\* createStore({...initialFormState}): the store wraps the object it is
\* given; the spread hands it a fresh object, not initialFormState itself.
CreateFormStore(init) == [state |-> init, sharesInitial |-> FALSE]

\* Variant of SetStore that replaces the whole record by the one entry.
SetStoreReplaces(state, key, value) == [k \in {key} |-> value]

\* setForm(name, value) / setFormErrors(key, message): a one-key path write.
SetStore(state, key, value) == SetProperty(state, key, value)

\* Fold of setProperty(previous, k, target[k]) over a set of target keys.
RECURSIVE ApplyTargetKeys(_, _, _)
ApplyTargetKeys(target, previous, keys) ==
    IF keys = {} THEN previous
    ELSE LET k == CHOOSE x \in keys : TRUE
         IN ApplyTargetKeys(target, SetProperty(previous, k, target[k]), keys \ {k})

\* Fold over the previous keys: a key whose target[key] is undefined is deleted.
RECURSIVE DropMissingKeys(_, _, _)
DropMissingKeys(target, previous, keys) ==
    IF keys = {} THEN previous
    ELSE LET k == CHOOSE x \in keys : TRUE
             nxt == IF Get(target, k) = Undefined
                    THEN SetProperty(previous, k, Undefined)
                    ELSE previous
         IN DropMissingKeys(target, nxt, keys \ {k})

\* Variant of Reconcile that only adds the target keys the store lacks.
ReconcileKeepsOld(target, previous) ==
    [k \in DOMAIN previous \cup DOMAIN target |->
        IF k \in DOMAIN previous THEN previous[k] ELSE target[k]]

\* setFormErrors(reconcile(target)): applyState at the store root.
Reconcile(target, previous) ==
    LET applied == ApplyTargetKeys(target, previous, DOMAIN target)
    IN DropMissingKeys(target, applied, DOMAIN applied)

\* The loop over result.error.issues of validate.
RECURSIVE ApplyIssues(_, _)
ApplyIssues(errors, issues) ==
    IF issues = <<>> THEN errors
    ELSE LET issue == Head(issues)
             nxt == IF Truthy(PathHead(issue.path))
                    THEN SetStore(errors, PathHead(issue.path), issue.message)
                    ELSE errors
         IN ApplyIssues(nxt, Tail(issues))

\* Field Errors after validate(), given the parse result.
ValidateErrors(init, errors, issues) ==
    LET reset == Reconcile(init, errors)
    IN IF issues = <<>> THEN reset
       ELSE ApplyIssues(Reconcile(init, reset), issues)

\* Names a change event's target, or a setter's path, can carry.
Names(s) == DOMAIN Shape(s) \cup {"other", "toString", "valueOf", "__proto__"}

\* Messages a caller writes through setFormErrors.
Messages == {"", "stale"}

NoCall == [op |-> "useForm", name |-> Undefined, value |-> Undefined,
           ret |-> "none"]

(***************************************************************************)
(* State machine.                                                          *)
(***************************************************************************)
\* State after useForm(schema) returns.
Init ==
    /\ schema \in Schemas
    /\ initialFormState = InitialFormState(schema)
    /\ sharesInitial = CreateFormStore(initialFormState).sharesInitial
    /\ form = CreateFormStore(initialFormState).state
    /\ formErrors = EmptyObject
    /\ last = NoCall
    /\ preForm = form
    /\ preErrors = formErrors
    /\ validated = FALSE
    /\ passIssues = <<>>
    /\ nops = 0

\* handleChange(e) with e.target = {name, value}.
handleChange(name, value) ==
    /\ nops < MaxOps
    /\ form' = IF HasProperty(Shape(schema), name)
               THEN SetStore(form, name, value)
               ELSE form
    /\ initialFormState' = IF sharesInitial THEN form' ELSE initialFormState
    /\ last' = [op |-> "handleChange", name |-> name, value |-> value,
                ret |-> "none"]
    /\ preForm' = form
    /\ preErrors' = formErrors
    /\ nops' = nops + 1
    /\ UNCHANGED <<schema, sharesInitial, formErrors, validated, passIssues>>

\* validate()
validate ==
    /\ nops < MaxOps
    /\ LET issues == SafeParse(schema, form)
       IN /\ formErrors' = ValidateErrors(initialFormState, formErrors, issues)
          /\ last' = [op |-> "validate", name |-> Undefined, value |-> Undefined,
                      ret |-> IF issues = <<>> THEN "true" ELSE "false"]
          /\ passIssues' = issues
    /\ validated' = TRUE
    /\ preForm' = form
    /\ preErrors' = formErrors
    /\ nops' = nops + 1
    /\ UNCHANGED <<schema, initialFormState, sharesInitial, form>>

\* setForm(name, value): the raw store setter returned to the caller.
setForm(name, value) ==
    /\ nops < MaxOps
    /\ form' = SetStore(form, name, value)
    /\ initialFormState' = IF sharesInitial THEN form' ELSE initialFormState
    /\ last' = [op |-> "setForm", name |-> name, value |-> value, ret |-> "none"]
    /\ preForm' = form
    /\ preErrors' = formErrors
    /\ nops' = nops + 1
    /\ UNCHANGED <<schema, sharesInitial, formErrors, validated, passIssues>>

\* setFormErrors(key, message): the raw store setter returned to the caller.
setFormErrors(key, message) ==
    /\ nops < MaxOps
    /\ formErrors' = SetStore(formErrors, key, message)
    /\ last' = [op |-> "setFormErrors", name |-> key, value |-> message,
                ret |-> "none"]
    /\ preForm' = form
    /\ preErrors' = formErrors
    /\ nops' = nops + 1
    /\ UNCHANGED <<schema, initialFormState, sharesInitial, form, validated,
                   passIssues>>

HandleChange == \E name \in Names(schema), value \in Values : handleChange(name, value)

SetForm == \E name \in Names(schema), value \in Values : setForm(name, value)

SetFormErrors == \E key \in Names(schema), message \in Messages : setFormErrors(key, message)

\* The four functions useForm returns.
Next == HandleChange \/ validate \/ SetForm \/ SetFormErrors

Spec == Init /\ [][Next]_vars

\* Runs that use only handleChange and validate.
NextHandlers == HandleChange \/ validate

SpecHandlers == Init /\ [][NextHandlers]_vars

(***************************************************************************)
(* Properties.                                                             *)
(***************************************************************************)
SchemaKeys == DOMAIN Shape(schema)

\* Keys of an error record that hold a non-empty message.
ErrorKeys(errors) == {k \in DOMAIN errors : errors[k] # ""}

\* An absent entry or the empty string.
EntryEmpty(errors, k) == k \notin DOMAIN errors \/ errors[k] = ""

\* First path segments of the issues that have one.
IssueHeads(issues) ==
    {PathHead(issues[i].path) : i \in {j \in 1..Len(issues) : Len(issues[j].path) > 0}}

\* Indices of the issues whose first path segment is f.
IssuesOf(issues, f) ==
    {i \in 1..Len(issues) : Len(issues[i].path) > 0 /\ PathHead(issues[i].path) = f}

\* Message of the last issue whose first path segment is f.
LastMessage(issues, f) ==
    LET idx == IssuesOf(issues, f)
        hi == CHOOSE i \in idx : \A j \in idx : j <= i
    IN issues[hi].message

FailedPass == last.op = "validate" /\ last.ret = "false"

\* C1: right after useForm(schema) returns, form has exactly the schema's keys,
\* each mapped to the empty string, and formErrors has no entry.
C1_InitialState ==
    last.op = "useForm" =>
        /\ DOMAIN form = SchemaKeys
        /\ \A k \in DOMAIN form : form[k] = ""
        /\ DOMAIN formErrors = {}

C1_Witness == last.op = "useForm" /\ nops = 0 /\ Cardinality(SchemaKeys) = 3

\* C2: handleChange with a name that is not a declared schema key leaves form
\* unchanged (no entry changes, no key is added).
C2_UnknownNameIgnored ==
    (last.op = "handleChange" /\ last.name \notin SchemaKeys) => form = preForm

\* C3: handleChange with schema key k and value v yields form[k] = v and leaves
\* every other key of form as it was.
C3_WriteAndFrame ==
    (last.op = "handleChange" /\ last.name \in SchemaKeys) =>
        /\ DOMAIN form = DOMAIN preForm
        /\ form[last.name] = last.value
        /\ \A k \in DOMAIN preForm \ {last.name} : form[k] = preForm[k]

C3_Witness ==
    /\ last.op = "handleChange" /\ last.name \in SchemaKeys
    /\ last.value # preForm[last.name]
    /\ \E k \in DOMAIN preForm \ {last.name} : preForm[k] # ""

\* C4: validate on values that satisfy the schema returns true and leaves no
\* key of formErrors with a non-empty message, whatever formErrors held before.
C4_PassClearsErrors ==
    (last.op = "validate" /\ SafeParse(schema, preForm) = <<>>) =>
        /\ last.ret = "true"
        /\ ErrorKeys(formErrors) = {}

\* C5: after a failing validate, the keys holding a non-empty message are
\* exactly the first path segments of the issues of this pass.
C5_ErrorsAreIssueHeads ==
    FailedPass => ErrorKeys(formErrors) = IssueHeads(passIssues)

\* C6: the keys present in formErrors are a subset of the schema's keys.
C6_ErrorKeysInSchema == DOMAIN formErrors \subseteq SchemaKeys

\* C7 as stated: a schema field whose current value is valid, or any field
\* before the first validate, has an empty formErrors entry.
C7_ValidNowMeansNoError ==
    \A k \in SchemaKeys :
        (~validated \/ IssuesOf(SafeParse(schema, form), k) = {})
            => EntryEmpty(formErrors, k)

\* C7 amended: a schema field that no issue of the most recent validate call
\* named as its first path segment, or any field before the first validate,
\* has an empty formErrors entry.
C7_ValidAtLastPassMeansNoError ==
    \A k \in SchemaKeys :
        (~validated \/ IssuesOf(passIssues, k) = {}) => EntryEmpty(formErrors, k)

C7_Witness ==
    /\ validated /\ last.op = "validate"
    /\ \E k \in SchemaKeys \cap ErrorKeys(preErrors) :
          IssuesOf(passIssues, k) = {} /\ EntryEmpty(formErrors, k)

\* C8: when several issues of a failing pass share their first path segment,
\* that field's formErrors entry is the message of the last of them.
C8_LastIssueWins ==
    FailedPass =>
        \A f \in IssueHeads(passIssues) :
            Cardinality(IssuesOf(passIssues, f)) >= 2 =>
                /\ f \in DOMAIN formErrors
                /\ formErrors[f] = LastMessage(passIssues, f)

\* C9: in a failing pass every issue with a first path segment, whatever the
\* segment, sets formErrors[segment] to its message; issues with an empty path
\* change nothing, and validate returns false.
C9_EveryPathSegmentSet ==
    (last.op = "validate" /\ passIssues # <<>>) =>
        /\ last.ret = "false"
        /\ \A f \in IssueHeads(passIssues) :
              /\ f \in DOMAIN formErrors
              /\ formErrors[f] = LastMessage(passIssues, f)
        /\ (IssueHeads(passIssues) = {} => ErrorKeys(formErrors) = {})

\* C10: validate never changes form, and the record used to reset formErrors
\* stays all-empty-string whatever handleChange has written.
C10_ValidateKeepsValues ==
    /\ last.op = "validate" => form = preForm
    /\ \A k \in DOMAIN initialFormState : initialFormState[k] = ""

C10_Witness ==
    /\ FailedPass
    /\ \E k \in SchemaKeys : form[k] # ""
    /\ ErrorKeys(formErrors) # {}
====
